---- MODULE Spec2Model ----
(***************************************************************************)
(* A model of three parts of telegram-qt:                                  *)
(*   - the server's RemoteClientConnection (auth key processing, session   *)
(*     attachment, the key error frame),                                   *)
(*   - the server's users.* RPC operations,                                *)
(*   - the client's DataStorage / DataInternalApi (in-memory indices).     *)
(* Each part has its own specifications (SpecConn, SpecSession and        *)
(* SpecShared, SpecRpc, SpecStore and SpecLookup); a specification leaves  *)
(* the variables of the other parts unchanged.                             *)
(***************************************************************************)
EXTENDS Integers, Sequences, FiniteSets, TLC

VARIABLES
    \* ---- server connections (RemoteClientConnection.cpp) ----
    authKey,      \* [Conns -> key]: m_sendHelper's auth key (EmptyKey: none)
    status,       \* [Conns -> status]: BaseConnection status
    transport,    \* [Conns -> [state, sent]]: m_transport and the packets sent on it
    slots,        \* [Conns -> [handler, keyError]]: slots connected to packetReceived
    registry,     \* ServerApi: the set of registered auth keys
    sessConn,     \* [Sessions -> conn]: Session::m_connection
    rpcSession,   \* [Conns -> session]: RpcLayer::m_session
    ret,          \* the last processAuthKey call: arguments, result, api calls
    pending,      \* [Conns -> [active, id, key]]: a processAuthKey call that has
                  \* read the registry (line 86) and not yet acted on what it read
    \* ---- users.* RPC operations (UsersOperationFactory.cpp) ----
    serverUsers,  \* ServerApi: the ids of the registered users
    layerUser,    \* RpcLayer::getUser(): the requester (Null: not signed in)
    setupFails,   \* the users for which Utils::setupTLUser returns false
    op,           \* the UsersRpcOperation: [state, runMethod, getFullUser, getUsers]
    replies,      \* what the current operation sent through the RPC layer, in order
    \* ---- client data store (DataStorage.cpp) ----
    d,            \* the DataInternalApi object: m_users, m_chats, m_clientMessages,
                  \* m_channelMessages, m_dialogs, m_contactList, m_selfUserId,
                  \* and the number of warnings it has logged
    log,          \* the ingest calls made so far, in order: [kind, arg]
    out,          \* the object the caller passed to the last lookup: [kind, value],
                  \* value <<>> while default constructed, <<v>> once filled
    returned      \* what the last lookup / toInputPeer returned: [call, ok, inputPeer]

connVars == <<authKey, status, transport, slots, registry, sessConn, rpcSession, ret,
              pending>>
rpcVars == <<serverUsers, layerUser, setupFails, op, replies>>
storeVars == <<d, log, out, returned>>

(***************************************************************************)
(* Bounds of the connection model.                                         *)
(***************************************************************************)
NumConns == 2
NumKeys == 2
NumSessions == 1
MaxSent == 2

Conns == 1..NumConns
Keys == 1..NumKeys
Sessions == 1..NumSessions

\* QByteArray().isEmpty(): the helper holds no key, getAuthKeyById found none.
EmptyKey == 0
\* A null Session* / RemoteClientConnection*.
Null == 0

\* SendPackageHelper::setAuthKey derives the id from the key (the low 64 bits
\* of SHA-1 of the key); an empty key has id 0.  The hash is abstracted as an
\* injective non-zero function of the key.
AuthKeyId(key) == IF key = EmptyKey THEN 0 ELSE 3 * key + 1

\* m_sendHelper->authId()
authId(c) == AuthKeyId(authKey[c])

\* Ids no key derives to (such as 0xDEADBEEFDEADBEEF).
UnknownIds == {2}
PresentedIds == {0} \cup {AuthKeyId(k) : k \in Keys} \cup UnknownIds

\* ServerApi::getAuthKeyById: the registered key with that id, or empty.
getAuthKeyById(id) ==
    IF \E k \in registry : AuthKeyId(k) = id
    THEN CHOOSE k \in registry : AuthKeyId(k) = id
    ELSE EmptyKey

\* QByteArray::fromHex: two hex digits (given by their values) make one byte.
RECURSIVE fromHex(_)
fromHex(digits) ==
    IF Len(digits) < 2 THEN <<>>
    ELSE <<16 * digits[1] + digits[2]>> \o fromHex(SubSeq(digits, 3, Len(digits)))

\* The literal "6cfeffff".
errorPackageHex == <<6, 12, 15, 14, 15, 15, 15, 15>>
errorPackage == fromHex(errorPackageHex)

\* BaseTransport::sendPacket on connection c's transport.
sendPacket(tr, packet) == [tr EXCEPT !.sent = Append(@, packet)]

\* A sendKeyError that sends the frame with its bytes in the wrong order.
sendKeyErrorSwapped(tr) == sendPacket(tr, <<255, 255, 254, 108>>)

\* RemoteClientConnection::sendKeyError
sendKeyError(tr) == sendPacket(tr, errorPackage)

\* A rewiring that connects sendKeyError and leaves the packet handler connected.
rewireKeepsHandler(s) == [handler |-> TRUE, keyError |-> s.keyError + 1]

\* Lines 100-101: the packet handler is disconnected from packetReceived and
\* sendKeyError is connected to it (one more connection of that slot).
rewireToKeyError(s) == [handler |-> FALSE, keyError |-> s.keyError + 1]

\* setStatus(Status::Failed, StatusReason::Local)
setStatusFailed(st) == "Failed"

\* A failure path that also drops the helper's key.
keyFailureClearsKey(c, id, lookedUp) ==
    /\ slots' = [slots EXCEPT ![c] = rewireToKeyError(@)]
    /\ status' = [status EXCEPT ![c] = setStatusFailed(@)]
    /\ transport' = [transport EXCEPT ![c] = sendKeyError(@)]
    /\ ret' = [conn |-> c, authKeyId |-> id, result |-> FALSE, lookedUp |-> lookedUp]
    /\ authKey' = [authKey EXCEPT ![c] = EmptyKey]

\* Lines 100-104: the failure path of processAuthKey.
keyFailure(c, id, lookedUp) ==
    /\ slots' = [slots EXCEPT ![c] = rewireToKeyError(@)]
    /\ status' = [status EXCEPT ![c] = setStatusFailed(@)]
    /\ transport' = [transport EXCEPT ![c] = sendKeyError(@)]
    /\ ret' = [conn |-> c, authKeyId |-> id, result |-> FALSE, lookedUp |-> lookedUp]
    /\ UNCHANGED authKey

\* A success path that returns true without setAuthKey.
bindAuthKeyNoSet(c, id, key) ==
    /\ ret' = [conn |-> c, authKeyId |-> id, result |-> TRUE, lookedUp |-> TRUE]
    /\ UNCHANGED <<authKey, slots, status, transport>>

\* A success path that sets another key than the one looked up.
bindAuthKeyWrong(c, id, key) ==
    /\ authKey' = [authKey EXCEPT ![c] = (key % NumKeys) + 1]
    /\ ret' = [conn |-> c, authKeyId |-> id, result |-> TRUE, lookedUp |-> TRUE]
    /\ UNCHANGED <<slots, status, transport>>

\* Lines 95-96: m_sendHelper->setAuthKey(authKey); return true.
bindAuthKey(c, id, key) ==
    /\ authKey' = [authKey EXCEPT ![c] = key]
    /\ ret' = [conn |-> c, authKeyId |-> id, result |-> TRUE, lookedUp |-> TRUE]
    /\ UNCHANGED <<slots, status, transport>>

\* A processAuthKey without the branch of lines 79-84: a helper that holds a
\* key is rebound to whatever key the presented id names.
processAuthKeyRebind(c, id) ==
    IF id = authId(c)
    THEN /\ ret' = [conn |-> c, authKeyId |-> id, result |-> TRUE, lookedUp |-> FALSE]
         /\ UNCHANGED <<authKey, slots, status, transport>>
    ELSE IF getAuthKeyById(id) = EmptyKey
    THEN keyFailure(c, id, TRUE)
    ELSE bindAuthKey(c, id, getAuthKeyById(id))

\* A processAuthKey that accepts the id zero whatever the helper holds.
processAuthKeyZeroAlways(c, id) ==
    IF id = authId(c) \/ id = 0
    THEN /\ ret' = [conn |-> c, authKeyId |-> id, result |-> TRUE, lookedUp |-> FALSE]
         /\ UNCHANGED <<authKey, slots, status, transport>>
    ELSE IF authId(c) # 0
    THEN keyFailure(c, id, FALSE)
    ELSE IF getAuthKeyById(id) = EmptyKey
    THEN keyFailure(c, id, TRUE)
    ELSE bindAuthKey(c, id, getAuthKeyById(id))

\* RemoteClientConnection::processAuthKey(authKeyId)
processAuthKey(c, id) ==
    IF id = authId(c)
    THEN /\ ret' = [conn |-> c, authKeyId |-> id, result |-> TRUE, lookedUp |-> FALSE]
         /\ UNCHANGED <<authKey, slots, status, transport>>
    ELSE IF authId(c) # 0
    THEN keyFailure(c, id, FALSE)
    ELSE IF getAuthKeyById(id) = EmptyKey
    THEN keyFailure(c, id, TRUE)
    ELSE bindAuthKey(c, id, getAuthKeyById(id))

(***************************************************************************)
(* Actions of the connection model.                                        *)
(***************************************************************************)

\* A packet handler whose key failure also detaches the RPC layer's session.
onTransportPacketReceivedDropsSession(c, id) ==
    /\ transport[c].state = "Connected"
    /\ slots[c].handler
    /\ Len(transport[c].sent) < MaxSent
    /\ processAuthKey(c, id)
    /\ rpcSession' = IF ret'.result THEN rpcSession ELSE [rpcSession EXCEPT ![c] = Null]
    /\ UNCHANGED <<registry, sessConn>>
    /\ UNCHANGED <<pending, rpcVars, storeVars>>

\* The transport emits packetReceived while the connection's packet handler
\* is connected: the handler reads the packet's auth_key_id and calls
\* processAuthKey with it.
onTransportPacketReceived(c, id) ==
    /\ transport[c].state = "Connected"
    /\ slots[c].handler
    /\ Len(transport[c].sent) < MaxSent
    /\ processAuthKey(c, id)
    /\ UNCHANGED <<registry, sessConn, rpcSession>>
    /\ UNCHANGED <<pending, rpcVars, storeVars>>

RECURSIVE repeatSendKeyError(_, _)
repeatSendKeyError(tr, n) ==
    IF n = 0 THEN tr ELSE repeatSendKeyError(sendKeyError(tr), n - 1)

\* The transport emits packetReceived after the rewiring of lines 100-101:
\* every connection of sendKeyError to the signal runs once.
onPacketAfterKeyError(c) ==
    /\ transport[c].state = "Connected"
    /\ slots[c].keyError > 0
    /\ Len(transport[c].sent) < MaxSent
    /\ transport' = [transport EXCEPT ![c] = repeatSendKeyError(@, slots[c].keyError)]
    /\ UNCHANGED <<authKey, status, slots, registry, sessConn, rpcSession, ret>>
    /\ UNCHANGED <<pending, rpcVars, storeVars>>

\* The DH layer completes the handshake on a connection without a key: a
\* fresh key is stored on the send helper and registered with the server API.
dhKeyEstablished(c, key) ==
    /\ ~pending[c].active
    /\ transport[c].state = "Connected"
    /\ slots[c].handler
    /\ authKey[c] = EmptyKey
    /\ key \notin registry
    /\ authKey' = [authKey EXCEPT ![c] = key]
    /\ registry' = registry \cup {key}
    /\ status' = [status EXCEPT ![c] = "HasDhKey"]
    /\ UNCHANGED <<transport, slots, sessConn, rpcSession, ret>>
    /\ UNCHANGED <<pending, rpcVars, storeVars>>

\* No processAuthKey call in progress on the connection.
NoPending == [active |-> FALSE, id |-> 0, key |-> EmptyKey]

\* A first half of processAuthKey that takes the key out of the registry
\* when it looks it up.
processAuthKeyLookupTakes(c, id) ==
    /\ transport[c].state = "Connected"
    /\ slots[c].handler
    /\ Len(transport[c].sent) < MaxSent
    /\ ~pending[c].active
    /\ IF id = authId(c) \/ authId(c) # 0
       THEN /\ processAuthKey(c, id)
            /\ UNCHANGED <<pending, registry>>
       ELSE /\ pending' = [pending EXCEPT
                              ![c] = [active |-> TRUE, id |-> id,
                                      key |-> getAuthKeyById(id)]]
            /\ registry' = registry \ {getAuthKeyById(id)}
            /\ UNCHANGED <<authKey, status, transport, slots, ret>>
    /\ UNCHANGED <<sessConn, rpcSession>>
    /\ UNCHANGED <<rpcVars, storeVars>>

\* processAuthKey on connection c's executor, up to and including its one
\* access to the server API (lines 74-86).  The branches that return before
\* line 86 touch the connection's own objects only and are taken whole; the
\* branch that reaches line 86 reads the registry in one atomic
\* getAuthKeyById and holds the result.
processAuthKeyLookup(c, id) ==
    /\ transport[c].state = "Connected"
    /\ slots[c].handler
    /\ Len(transport[c].sent) < MaxSent
    /\ ~pending[c].active
    /\ IF id = authId(c) \/ authId(c) # 0
       THEN /\ processAuthKey(c, id)
            /\ UNCHANGED pending
       ELSE /\ pending' = [pending EXCEPT
                              ![c] = [active |-> TRUE, id |-> id,
                                      key |-> getAuthKeyById(id)]]
            /\ UNCHANGED <<authKey, status, transport, slots, ret>>
    /\ UNCHANGED <<registry, sessConn, rpcSession>>
    /\ UNCHANGED <<rpcVars, storeVars>>

\* The rest of that call (lines 87-104), on the key it read: bind it, or
\* fail when none was found.
processAuthKeyFinish(c) ==
    /\ pending[c].active
    /\ IF pending[c].key = EmptyKey
       THEN keyFailure(c, pending[c].id, TRUE)
       ELSE bindAuthKey(c, pending[c].id, pending[c].key)
    /\ pending' = [pending EXCEPT ![c] = NoPending]
    /\ UNCHANGED <<registry, sessConn, rpcSession>>
    /\ UNCHANGED <<rpcVars, storeVars>>

\* The peer drops the TCP connection and connects again: the server
\* constructs a new RemoteClientConnection (a new send helper, without key,
\* a new RPC layer, without session) in place of the old one.  The server
\* API keeps its registry.
reconnect(c) ==
    /\ ~pending[c].active
    /\ authKey[c] # EmptyKey \/ status[c] # "Connected"
    /\ authKey' = [authKey EXCEPT ![c] = EmptyKey]
    /\ status' = [status EXCEPT ![c] = "Connected"]
    /\ transport' = [transport EXCEPT ![c] = [state |-> "Connected", sent |-> <<>>]]
    /\ slots' = [slots EXCEPT ![c] = [handler |-> TRUE, keyError |-> 0]]
    /\ rpcSession' = [rpcSession EXCEPT ![c] = Null]
    /\ UNCHANGED <<registry, sessConn, ret, pending>>
    /\ UNCHANGED <<rpcVars, storeVars>>

\* Session::setConnection
setConnection(sc, s, c) == [sc EXCEPT ![s] = c]

\* RpcLayer::setSession
rpcLayerSetSession(rs, c, s) == [rs EXCEPT ![c] = s]

\* RemoteClientConnection::setSession(session), called by the server for a
\* connection that presented a known auth key.
setSession(c, s) ==
    /\ authKey[c] # EmptyKey
    /\ sessConn' = setConnection(sessConn, s, c)
    /\ rpcSession' = rpcLayerSetSession(rpcSession, c, s)
    /\ UNCHANGED <<authKey, status, transport, slots, registry, ret>>
    /\ UNCHANGED <<pending, rpcVars, storeVars>>

\* The peer drops the TCP connection.
transportDisconnected(c) ==
    /\ transport[c].state = "Connected"
    /\ transport' = [transport EXCEPT ![c].state = "Disconnected"]
    /\ UNCHANGED <<authKey, status, slots, registry, sessConn, rpcSession, ret>>
    /\ UNCHANGED <<pending, rpcVars, storeVars>>

(***************************************************************************)
(* The users.* RPC operations.                                             *)
(***************************************************************************)
NumServerUsers == 2
MaxVector == 2

\* User ids a request can name: the registrable ids and one more, which is
\* never registered (such as 999).
RequestUserIds == 1..(NumServerUsers + 1)
RegistrableUserIds == 1..NumServerUsers

\* TLInputUser
InputUserEmpty == [tlType |-> "InputUserEmpty", userId |-> 0]
InputUserSelf == [tlType |-> "InputUserSelf", userId |-> 0]
InputUser(id) == [tlType |-> "InputUser", userId |-> id]
InputUsers == {InputUserEmpty, InputUserSelf} \cup {InputUser(id) : id \in RequestUserIds}

RECURSIVE SeqsUpTo(_, _)
SeqsUpTo(S, n) ==
    IF n = 0 THEN {<<>>}
    ELSE SeqsUpTo(S, n - 1) \cup {Append(q, x) : q \in SeqsUpTo(S, n - 1), x \in S}

\* TLVector<TLInputUser> of at most MaxVector entries.
InputUserVectors == SeqsUpTo(InputUsers, MaxVector)

\* TLValue function tags: the two of the users group and one of another group.
TLValues == {"UsersGetFullUser", "UsersGetUsers", "HelpGetConfig"}

\* ServerApi::getUser(const TLInputUser &, LocalUser *self): InputUserSelf is
\* the requester, InputUser{user_id} the registered user of that id, anything
\* else nobody.
getUser(input, self) ==
    CASE input.tlType = "InputUserSelf" -> self
      [] input.tlType = "InputUser" ->
            IF input.userId \in serverUsers THEN input.userId ELSE Null
      [] OTHER -> Null

\* Utils::setupTLUser(&output, user, self): writes the TLUser of the user as
\* the requester sees it and reports whether it could.
setupTLUser(user, self) ==
    [ok |-> user \notin setupFails,
     user |-> [tlType |-> "User", id |-> user, self |-> (user = self)]]

\* RpcError::UserIdInvalid as sendRpcError puts it on the wire.
UserIdInvalid == [kind |-> "rpc_error", code |-> 400, message |-> "USER_ID_INVALID"]

\* RpcOperation::sendRpcError / sendRpcReply: one message through the layer.
sendRpcError(rs, error) == Append(rs, error)
sendRpcReply(rs, result) == Append(rs, [kind |-> "rpc_result", result |-> result])

\* A runGetFullUser whose error branch does not return.
runGetFullUserNoReturn(rs, input, self) ==
    LET user == getUser(input, self)
        afterError == IF user = Null THEN sendRpcError(rs, UserIdInvalid) ELSE rs
    IN sendRpcReply(afterError,
                    [tlType |-> "UserFull", user |-> setupTLUser(user, self).user])

\* UsersRpcOperation::runGetFullUser: the replies after the run.
runGetFullUser(rs, input, self) ==
    LET user == getUser(input, self)
    IN IF user = Null
       THEN sendRpcError(rs, UserIdInvalid)
       ELSE sendRpcReply(rs, [tlType |-> "UserFull",
                              user |-> setupTLUser(user, self).user])

\* The loop of runGetUsers over the inputs from index i on, with the result
\* vector built so far: the final vector, or the failure of an entry.
RECURSIVE getUsersLoop(_, _, _, _)
getUsersLoop(inputs, i, self, result) ==
    IF i > Len(inputs) THEN [failed |-> FALSE, result |-> result]
    ELSE LET remoteUser == getUser(inputs[i], self)
         IN IF remoteUser = Null
            THEN [failed |-> TRUE, result |-> result]
            ELSE LET tl == setupTLUser(remoteUser, self)
                 IN getUsersLoop(inputs, i + 1, self,
                                 IF tl.ok THEN Append(result, tl.user) ELSE result)

\* A runGetUsers that replies with the users found before the entry that
\* could not be resolved.
runGetUsersPartial(rs, inputs, self) ==
    sendRpcReply(rs, getUsersLoop(inputs, 1, self, <<>>).result)

\* UsersRpcOperation::runGetUsers: the replies after the run.
runGetUsers(rs, inputs, self) ==
    LET loop == getUsersLoop(inputs, 1, self, <<>>)
    IN IF loop.failed
       THEN sendRpcError(rs, UserIdInvalid)
       ELSE sendRpcReply(rs, loop.result)

\* A getMethodForRpcFunction with the two methods exchanged.
getMethodForRpcFunctionSwapped(function) ==
    CASE function = "UsersGetFullUser" -> "processGetUsers"
      [] function = "UsersGetUsers" -> "processGetFullUser"
      [] OTHER -> "nullptr"

\* UsersRpcOperation::getMethodForRpcFunction
getMethodForRpcFunction(function) ==
    CASE function = "UsersGetFullUser" -> "processGetFullUser"
      [] function = "UsersGetUsers" -> "processGetUsers"
      [] OTHER -> "nullptr"

NoOperation ==
    [state |-> "none", runMethod |-> "nullptr",
     getFullUser |-> InputUserEmpty, getUsers |-> <<>>, parsed |-> FALSE]

\* UsersRpcOperation::processGetFullUser: records the run method and reads
\* the argument from the stream; a stream with its error latch set yields
\* the zero value.
processGetFullUser(input, streamError) ==
    [state |-> "processed", runMethod |-> "runGetFullUser",
     getFullUser |-> IF streamError THEN InputUserEmpty ELSE input,
     getUsers |-> <<>>, parsed |-> ~streamError]

\* UsersRpcOperation::processGetUsers
processGetUsers(inputs, streamError) ==
    [state |-> "processed", runMethod |-> "runGetUsers",
     getFullUser |-> InputUserEmpty,
     getUsers |-> IF streamError THEN <<>> ELSE inputs, parsed |-> ~streamError]

\* UsersOperationFactory::processRpcCall for users.getFullUser: the method
\* for the tag parses the argument; an operation that failed to parse is
\* dropped.
processRpcCallGetFullUser(input, streamError) ==
    /\ op.state # "processed"
    /\ getMethodForRpcFunction("UsersGetFullUser") = "processGetFullUser"
    /\ op' = LET o == processGetFullUser(input, streamError)
             IN IF o.parsed THEN o ELSE [o EXCEPT !.state = "dropped"]
    /\ replies' = <<>>
    /\ UNCHANGED <<serverUsers, layerUser, setupFails>>
    /\ UNCHANGED <<connVars, storeVars>>

\* UsersOperationFactory::processRpcCall for users.getUsers.
processRpcCallGetUsers(inputs, streamError) ==
    /\ op.state # "processed"
    /\ getMethodForRpcFunction("UsersGetUsers") = "processGetUsers"
    /\ op' = LET o == processGetUsers(inputs, streamError)
             IN IF o.parsed THEN o ELSE [o EXCEPT !.state = "dropped"]
    /\ replies' = <<>>
    /\ UNCHANGED <<serverUsers, layerUser, setupFails>>
    /\ UNCHANGED <<connVars, storeVars>>

\* UsersOperationFactory::processRpcCall for a tag of another group: no
\* method, no operation.
processRpcCallOther(function) ==
    /\ op.state # "processed"
    /\ getMethodForRpcFunction(function) = "nullptr"
    /\ op' = NoOperation
    /\ replies' = <<>>
    /\ UNCHANGED <<serverUsers, layerUser, setupFails>>
    /\ UNCHANGED <<connVars, storeVars>>

\* UsersRpcOperation::startImplementation: callMember(this, m_runMethod).
startImplementation ==
    /\ op.state = "processed"
    /\ replies' = CASE op.runMethod = "runGetFullUser" ->
                         runGetFullUser(replies, op.getFullUser, layerUser)
                    [] op.runMethod = "runGetUsers" ->
                         runGetUsers(replies, op.getUsers, layerUser)
    /\ op' = [op EXCEPT !.state = "finished"]
    /\ UNCHANGED <<serverUsers, layerUser, setupFails>>
    /\ UNCHANGED <<connVars, storeVars>>

(***************************************************************************)
(* The client data store.                                                  *)
(***************************************************************************)
MaxId == 2
MaxIngests == 2
\* quint32 is modelled WordBits wide and quint64 twice that (TLC's integers
\* have 32 bits).
WordBits == 4

Word == 2 ^ WordBits
DWord == Word * Word

Ids == 1..MaxId
AccessHashes == {7, 9}

\* TLUser: id, accessHash and the Self flag (self()).
TLUsers == [id : Ids, accessHash : AccessHashes, self : BOOLEAN]

\* TLChat (chats and channels share m_chats).
TLChats == [id : Ids, accessHash : AccessHashes]

\* TLPeer
PeerUser(id) == [tlType |-> "PeerUser", userId |-> id, chatId |-> 0, channelId |-> 0]
PeerChat(id) == [tlType |-> "PeerChat", userId |-> 0, chatId |-> id, channelId |-> 0]
PeerChannel(id) == [tlType |-> "PeerChannel", userId |-> 0, chatId |-> 0, channelId |-> id]

\* The peers messages are addressed to: a user and the channels 0 and 1.
MessagePeers == {PeerUser(1), PeerChannel(0), PeerChannel(1)}

\* TLMessage: id, toId, fromId, date, message and flags (Out, FwdFrom).
MessageBodies ==
    {[fromId |-> 1, date |-> 100, message |-> "a", flags |-> {}],
     [fromId |-> 2, date |-> 200, message |-> "b", flags |-> {"Out", "FwdFrom"}]}
TLMessage(id, toId, body) ==
    [id |-> id, toId |-> toId, fromId |-> body.fromId, date |-> body.date,
     message |-> body.message, flags |-> body.flags]
TLMessages == {TLMessage(id, p, b) : id \in Ids, p \in MessagePeers, b \in MessageBodies}

\* Sequences over S of a length between lo and hi.
SeqsBetween(S, lo, hi) == {q \in SeqsUpTo(S, hi) : Len(q) >= lo}

\* TLVector<TLUser>: two users flagged self and a third value for user 1.
VectorUsers ==
    {[id |-> 1, accessHash |-> 7, self |-> TRUE],
     [id |-> 2, accessHash |-> 7, self |-> TRUE],
     [id |-> 1, accessHash |-> 9, self |-> FALSE]}
UserVectors == SeqsBetween(VectorUsers, 2, MaxVector)

\* TLVector<TLChat>: two values of chat 1 and one of chat 2.
VectorChats ==
    {[id |-> 1, accessHash |-> 7], [id |-> 1, accessHash |-> 9]}
ChatVectors == SeqsBetween(VectorChats, 2, MaxVector)

\* TLDialog: peer and top message.
TLDialog(peer, top) == [peer |-> peer, topMessage |-> top]
SampleDialogs == {TLDialog(PeerUser(1), 1), TLDialog(PeerChannel(1), 2)}
DialogVectors == SeqsUpTo(SampleDialogs, MaxVector)

\* The users, chats and messages a messages.dialogs response carries for
\* its dialogs: the record of each dialog's peer and its top message.
RECURSIVE DialogUsers(_)
DialogUsers(ds) ==
    IF ds = <<>> THEN <<>>
    ELSE (IF ds[1].peer.tlType = "PeerUser"
          THEN <<[id |-> ds[1].peer.userId, accessHash |-> 9, self |-> FALSE]>>
          ELSE <<>>) \o DialogUsers(Tail(ds))
RECURSIVE DialogChats(_)
DialogChats(ds) ==
    IF ds = <<>> THEN <<>>
    ELSE (IF ds[1].peer.tlType = "PeerChannel"
          THEN <<[id |-> ds[1].peer.channelId, accessHash |-> 9]>>
          ELSE <<>>) \o DialogChats(Tail(ds))
RECURSIVE DialogMessages(_)
DialogMessages(ds) ==
    IF ds = <<>> THEN <<>>
    ELSE <<[id |-> ds[1].topMessage, toId |-> ds[1].peer, fromId |-> 2,
            date |-> 300, message |-> "top", flags |-> {}]>> \o DialogMessages(Tail(ds))

\* TLMessagesDialogs
TLMessagesDialogs(ds) ==
    [dialogs |-> ds, messages |-> DialogMessages(ds), chats |-> DialogChats(ds),
     users |-> DialogUsers(ds), count |-> Len(ds)]
DialogsResponses == {TLMessagesDialogs(ds) : ds \in DialogVectors}

\* TLMessagesMessages: messages with the users that sent them.
SampleMessages ==
    {[id |-> 1, toId |-> PeerUser(1), fromId |-> 1, date |-> 400,
      message |-> "c", flags |-> {"Out"}],
     [id |-> 1, toId |-> PeerChannel(0), fromId |-> 2, date |-> 500,
      message |-> "e", flags |-> {"FwdFrom"}]}
MessageVectors == SeqsBetween(SampleMessages, 1, MaxVector)
RECURSIVE Senders(_)
Senders(ms) ==
    IF ms = <<>> THEN <<>>
    ELSE <<[id |-> ms[1].fromId, accessHash |-> 7, self |-> FALSE]>> \o Senders(Tail(ms))
TLMessagesMessages(ms) == [messages |-> ms, chats |-> <<>>, users |-> Senders(ms)]
MessagesResponses == {TLMessagesMessages(ms) : ms \in MessageVectors}

\* TLAuthAuthorization: the signed-in user, flagged self.
Authorizations == {[user |-> u] : u \in {x \in TLUsers : x.self}}

\* TLVector<TLContact>
ContactVectors == SeqsUpTo({[userId |-> 1], [userId |-> 2]}, MaxVector)

\* QHash: insert under a new key or assign to the entry of an existing one.
Upsert(m, k, v) == IF k \in DOMAIN m THEN [m EXCEPT ![k] = v] ELSE m @@ (k :> v)

\* A channelMessageToKey that shifts within quint32.
channelMessageToKeyNarrow(channelId, messageId) ==
    ((((channelId % Word) * Word) % Word) + messageId) % DWord

\* DataInternalApi::channelMessageToKey: quint64 key = channelId;
\* (key << 32) + messageId.
channelMessageToKey(channelId, messageId) ==
    ((((channelId % DWord) * Word) % DWord) + messageId) % DWord

\* DataInternalApi::processData(const TLMessage &)
processDataMessage(s, message) ==
    IF message.toId.tlType = "PeerChannel"
    THEN [s EXCEPT !.channelMessages =
              Upsert(@, channelMessageToKey(message.toId.channelId, message.id), message)]
    ELSE [s EXCEPT !.clientMessages = Upsert(@, message.id, message)]

\* A processData(const TLChat &) that drops the other chats.
processDataChatOnly(s, chat) == [s EXCEPT !.chats = (chat.id :> chat)]

\* DataInternalApi::processData(const TLChat &)
processDataChat(s, chat) == [s EXCEPT !.chats = Upsert(@, chat.id, chat)]

\* A processData(const TLUser &) that leaves an existing record as it is.
processDataUserKeepFirst(s, user) ==
    LET stored == IF user.id \in DOMAIN s.users THEN s
                  ELSE [s EXCEPT !.users = @ @@ (user.id :> user)]
    IN IF user.self
       THEN [stored EXCEPT
                !.warnings = IF s.selfUserId # 0 /\ s.selfUserId # user.id
                             THEN @ + 1 ELSE @,
                !.selfUserId = user.id]
       ELSE stored

\* A processData(const TLUser &) that keeps the self id it has on a conflict.
processDataUserKeepSelf(s, user) ==
    LET stored == [s EXCEPT !.users = Upsert(@, user.id, user)]
    IN IF user.self
       THEN IF s.selfUserId # 0 /\ s.selfUserId # user.id
            THEN [stored EXCEPT !.warnings = @ + 1]
            ELSE [stored EXCEPT !.selfUserId = user.id]
       ELSE stored

\* A processData(const TLUser &) that records a self user's id without
\* storing the user.
processDataUserSelfNotStored(s, user) ==
    IF user.self
    THEN [s EXCEPT
             !.warnings = IF s.selfUserId # 0 /\ s.selfUserId # user.id
                          THEN @ + 1 ELSE @,
             !.selfUserId = user.id]
    ELSE [s EXCEPT !.users = Upsert(@, user.id, user)]

\* DataInternalApi::processData(const TLUser &)
processDataUser(s, user) ==
    LET stored == [s EXCEPT !.users = Upsert(@, user.id, user)]
    IN IF user.self
       THEN [stored EXCEPT
                !.warnings = IF s.selfUserId # 0 /\ s.selfUserId # user.id
                             THEN @ + 1 ELSE @,
                !.selfUserId = user.id]
       ELSE stored

\* DataInternalApi::processData(const TLVector<TLChat> &)
RECURSIVE processDataChats(_, _)
processDataChats(s, chats) ==
    IF chats = <<>> THEN s
    ELSE processDataChats(processDataChat(s, Head(chats)), Tail(chats))

\* DataInternalApi::processData(const TLVector<TLUser> &)
RECURSIVE processDataUsers(_, _)
processDataUsers(s, users) ==
    IF users = <<>> THEN s
    ELSE processDataUsers(processDataUser(s, Head(users)), Tail(users))

\* The loops over dialogs.messages / messages.messages.
RECURSIVE processDataMessageList(_, _)
processDataMessageList(s, messages) ==
    IF messages = <<>> THEN s
    ELSE processDataMessageList(processDataMessage(s, Head(messages)), Tail(messages))

\* DataInternalApi::processData(const TLAuthAuthorization &)
processDataAuthorization(s, authorization) == processDataUser(s, authorization.user)

\* DataInternalApi::processData(const TLMessagesDialogs &)
processDataDialogs(s, dialogs) ==
    LET s1 == [s EXCEPT !.dialogs = dialogs]
        s2 == processDataUsers(s1, dialogs.users)
        s3 == processDataChats(s2, dialogs.chats)
    IN processDataMessageList(s3, dialogs.messages)

\* DataInternalApi::processData(const TLMessagesMessages &)
processDataMessages(s, messages) ==
    LET s1 == processDataUsers(s, messages.users)
        s2 == processDataChats(s1, messages.chats)
    IN processDataMessageList(s2, messages.messages)

\* A setContactList that appends to the list.
setContactListAppend(s, contacts) == [s EXCEPT !.contactList = @ \o contacts]

\* DataInternalApi::setContactList
setContactList(s, contacts) == [s EXCEPT !.contactList = contacts]

\* An ingest call, by the kind of its argument.
Ingest(s, call) ==
    CASE call.kind = "user" -> processDataUser(s, call.arg)
      [] call.kind = "chat" -> processDataChat(s, call.arg)
      [] call.kind = "message" -> processDataMessage(s, call.arg)
      [] call.kind = "users" -> processDataUsers(s, call.arg)
      [] call.kind = "chats" -> processDataChats(s, call.arg)
      [] call.kind = "authorization" -> processDataAuthorization(s, call.arg)
      [] call.kind = "dialogs" -> processDataDialogs(s, call.arg)
      [] call.kind = "messages" -> processDataMessages(s, call.arg)
      [] call.kind = "contacts" -> setContactList(s, call.arg)

\* A call of processData(const TLUser &).
ingestUser(user) ==
    /\ Len(log) < MaxIngests
    /\ d' = processDataUser(d, user)
    /\ log' = Append(log, [kind |-> "user", arg |-> user])
    /\ UNCHANGED <<out, returned, connVars, rpcVars>>

\* A call of processData(const TLChat &).
ingestChat(chat) ==
    /\ Len(log) < MaxIngests
    /\ d' = processDataChat(d, chat)
    /\ log' = Append(log, [kind |-> "chat", arg |-> chat])
    /\ UNCHANGED <<out, returned, connVars, rpcVars>>

\* A call of processData(const TLMessage &).
ingestMessage(message) ==
    /\ Len(log) < MaxIngests
    /\ d' = processDataMessage(d, message)
    /\ log' = Append(log, [kind |-> "message", arg |-> message])
    /\ UNCHANGED <<out, returned, connVars, rpcVars>>

\* A call of processData(const TLVector<TLUser> &).
ingestUsers(users) ==
    /\ Len(log) < MaxIngests
    /\ d' = processDataUsers(d, users)
    /\ log' = Append(log, [kind |-> "users", arg |-> users])
    /\ UNCHANGED <<out, returned, connVars, rpcVars>>

\* A call of processData(const TLVector<TLChat> &).
ingestChats(chats) ==
    /\ Len(log) < MaxIngests
    /\ d' = processDataChats(d, chats)
    /\ log' = Append(log, [kind |-> "chats", arg |-> chats])
    /\ UNCHANGED <<out, returned, connVars, rpcVars>>

\* A call of processData(const TLAuthAuthorization &).
ingestAuthorization(authorization) ==
    /\ Len(log) < MaxIngests
    /\ d' = processDataAuthorization(d, authorization)
    /\ log' = Append(log, [kind |-> "authorization", arg |-> authorization])
    /\ UNCHANGED <<out, returned, connVars, rpcVars>>

\* A call of processData(const TLMessagesDialogs &).
ingestDialogs(dialogs) ==
    /\ Len(log) < MaxIngests
    /\ d' = processDataDialogs(d, dialogs)
    /\ log' = Append(log, [kind |-> "dialogs", arg |-> dialogs])
    /\ UNCHANGED <<out, returned, connVars, rpcVars>>

\* A call of processData(const TLMessagesMessages &).
ingestMessages(messages) ==
    /\ Len(log) < MaxIngests
    /\ d' = processDataMessages(d, messages)
    /\ log' = Append(log, [kind |-> "messages", arg |-> messages])
    /\ UNCHANGED <<out, returned, connVars, rpcVars>>

\* A call of setContactList(const TLVector<TLContact> &).
ingestContacts(contacts) ==
    /\ Len(log) < MaxIngests
    /\ d' = setContactList(d, contacts)
    /\ log' = Append(log, [kind |-> "contacts", arg |-> contacts])
    /\ UNCHANGED <<out, returned, connVars, rpcVars>>

\* Telegram::Peer (public): type and id.
Peer(type, id) == [type |-> type, id |-> id]

\* Utils::toPublicPeer
toPublicPeer(p) ==
    CASE p.tlType = "PeerUser" -> Peer("User", p.userId)
      [] p.tlType = "PeerChat" -> Peer("Chat", p.chatId)
      [] p.tlType = "PeerChannel" -> Peer("Channel", p.channelId)

\* DataStorage::getUserInfo: whether the user is known, and the copy made.
getUserInfo(s, userId) ==
    IF userId \notin DOMAIN s.users
    THEN [found |-> FALSE]
    ELSE [found |-> TRUE, info |-> s.users[userId]]

\* DataStorage::getChatInfo
getChatInfo(s, chatId) ==
    IF chatId \notin DOMAIN s.chats
    THEN [found |-> FALSE]
    ELSE [found |-> TRUE, info |-> s.chats[chatId]]

\* Lines 157-171 of getMessage: the public Message made of a TLMessage.
toPublicMessage(m) ==
    [type |-> "MessageTypeText", fromId |-> m.fromId, timestamp |-> m.date,
     text |-> m.message,
     flags |-> (IF "Out" \in m.flags THEN {"MessageFlagOut"} ELSE {})
               \cup (IF "FwdFrom" \in m.flags THEN {"MessageFlagForwarded"} ELSE {})]

\* DataStorage::getMessage
getMessage(s, peer, messageId) ==
    IF peer.type = "Channel"
    THEN LET key == channelMessageToKey(peer.id, messageId)
         IN IF key \in DOMAIN s.channelMessages
            THEN [found |-> TRUE, message |-> toPublicMessage(s.channelMessages[key])]
            ELSE [found |-> FALSE]
    ELSE IF messageId \in DOMAIN s.clientMessages
         THEN [found |-> TRUE, message |-> toPublicMessage(s.clientMessages[messageId])]
         ELSE [found |-> FALSE]

\* DataStorage::getDialogInfo: the first dialog of the list whose public
\* peer is the peer asked for.
RECURSIVE findDialog(_, _)
findDialog(dialogs, peer) ==
    IF dialogs = <<>> THEN [found |-> FALSE]
    ELSE IF toPublicPeer(Head(dialogs).peer) = peer
         THEN [found |-> TRUE, info |-> Head(dialogs)]
         ELSE findDialog(Tail(dialogs), peer)
getDialogInfo(s, peer) == findDialog(s.dialogs.dialogs, peer)

\* TLInputPeer as default constructed.
InputPeerEmpty ==
    [tlType |-> "InputPeerEmpty", userId |-> 0, chatId |-> 0, channelId |-> 0,
     accessHash |-> 0]

\* A toInputPeer without the self shortcut.
toInputPeerNoSelf(s, peer) ==
    CASE peer.type = "Chat" ->
            [InputPeerEmpty EXCEPT !.tlType = "InputPeerChat", !.chatId = peer.id]
      [] peer.type = "Channel" ->
            IF peer.id \in DOMAIN s.chats
            THEN [InputPeerEmpty EXCEPT !.tlType = "InputPeerChannel",
                                        !.channelId = peer.id,
                                        !.accessHash = s.chats[peer.id].accessHash]
            ELSE InputPeerEmpty
      [] peer.type = "User" ->
            IF peer.id \in DOMAIN s.users
            THEN [InputPeerEmpty EXCEPT !.tlType = "InputPeerUser",
                                        !.userId = peer.id,
                                        !.accessHash = s.users[peer.id].accessHash]
            ELSE InputPeerEmpty
      [] OTHER -> InputPeerEmpty

\* A toInputPeer that types a channel or user it has no record of.
toInputPeerUnchecked(s, peer) ==
    CASE peer.type = "Chat" ->
            [InputPeerEmpty EXCEPT !.tlType = "InputPeerChat", !.chatId = peer.id]
      [] peer.type = "Channel" ->
            [InputPeerEmpty EXCEPT !.tlType = "InputPeerChannel",
                                   !.channelId = peer.id,
                                   !.accessHash = IF peer.id \in DOMAIN s.chats
                                                  THEN s.chats[peer.id].accessHash
                                                  ELSE 0]
      [] peer.type = "User" ->
            IF peer.id = s.selfUserId
            THEN [InputPeerEmpty EXCEPT !.tlType = "InputPeerSelf"]
            ELSE [InputPeerEmpty EXCEPT !.tlType = "InputPeerUser",
                                        !.userId = peer.id,
                                        !.accessHash = IF peer.id \in DOMAIN s.users
                                                       THEN s.users[peer.id].accessHash
                                                       ELSE 0]
      [] OTHER -> InputPeerEmpty

\* DataInternalApi::toInputPeer
toInputPeer(s, peer) ==
    CASE peer.type = "Chat" ->
            [InputPeerEmpty EXCEPT !.tlType = "InputPeerChat", !.chatId = peer.id]
      [] peer.type = "Channel" ->
            IF peer.id \in DOMAIN s.chats
            THEN [InputPeerEmpty EXCEPT !.tlType = "InputPeerChannel",
                                        !.channelId = peer.id,
                                        !.accessHash = s.chats[peer.id].accessHash]
            ELSE InputPeerEmpty
      [] peer.type = "User" ->
            IF peer.id = s.selfUserId
            THEN [InputPeerEmpty EXCEPT !.tlType = "InputPeerSelf"]
            ELSE IF peer.id \in DOMAIN s.users
                 THEN [InputPeerEmpty EXCEPT !.tlType = "InputPeerUser",
                                             !.userId = peer.id,
                                             !.accessHash = s.users[peer.id].accessHash]
                 ELSE InputPeerEmpty
      [] OTHER -> InputPeerEmpty

\* The caller before any lookup: no output object, nothing returned.
NoOutput == [kind |-> "none", value |-> <<>>]
NoLookup == [call |-> "none", ok |-> FALSE, inputPeer |-> InputPeerEmpty]

\* What a lookup returns: true or false.
Returned(call, ok) == [call |-> call, ok |-> ok, inputPeer |-> InputPeerEmpty]

\* The object a caller passes to a lookup of a kind: the one it holds from
\* the last lookup of that kind, or a default constructed one.
Passed(kind) == IF out.kind = kind THEN out ELSE [kind |-> kind, value |-> <<>>]

\* A getUserInfo call that resets the caller's object when the user is unknown.
getUserInfoCallClears(userId) ==
    LET r == getUserInfo(d, userId)
    IN /\ returned' = Returned("getUserInfo", r.found)
       /\ out' = IF r.found THEN [kind |-> "user", value |-> <<r.info>>]
                 ELSE [kind |-> "user", value |-> <<>>]
       /\ UNCHANGED <<d, log, connVars, rpcVars>>

\* A call of DataStorage::getUserInfo(info, userId).
getUserInfoCall(userId) ==
    LET r == getUserInfo(d, userId)
    IN /\ returned' = Returned("getUserInfo", r.found)
       /\ out' = IF r.found THEN [kind |-> "user", value |-> <<r.info>>] ELSE Passed("user")
       /\ UNCHANGED <<d, log, connVars, rpcVars>>

\* A call of DataStorage::getChatInfo(info, chatId).
getChatInfoCall(chatId) ==
    LET r == getChatInfo(d, chatId)
    IN /\ returned' = Returned("getChatInfo", r.found)
       /\ out' = IF r.found THEN [kind |-> "chat", value |-> <<r.info>>] ELSE Passed("chat")
       /\ UNCHANGED <<d, log, connVars, rpcVars>>

\* A call of DataStorage::getDialogInfo(info, peer).
getDialogInfoCall(peer) ==
    LET r == getDialogInfo(d, peer)
    IN /\ returned' = Returned("getDialogInfo", r.found)
       /\ out' = IF r.found THEN [kind |-> "dialog", value |-> <<r.info>>]
                 ELSE Passed("dialog")
       /\ UNCHANGED <<d, log, connVars, rpcVars>>

\* A call of DataStorage::getMessage(message, peer, messageId).
getMessageCall(peer, messageId) ==
    LET r == getMessage(d, peer, messageId)
    IN /\ returned' = Returned("getMessage", r.found)
       /\ out' = IF r.found THEN [kind |-> "message", value |-> <<r.message>>]
                 ELSE Passed("message")
       /\ UNCHANGED <<d, log, connVars, rpcVars>>

\* A call of DataInternalApi::toInputPeer(peer): the caller holds no output
\* object, the TLInputPeer is returned by value.
toInputPeerCall(peer) ==
    /\ returned' = [call |-> "toInputPeer", ok |-> TRUE, inputPeer |-> toInputPeer(d, peer)]
    /\ out' = NoOutput
    /\ UNCHANGED <<d, log, connVars, rpcVars>>

\* DataInternalApi::getSelfUser: nullptr (<<>>) without a self user id,
\* else m_users.value(m_selfUserId), which is nullptr for an id not stored.
getSelfUser(s) ==
    IF s.selfUserId = 0 THEN <<>>
    ELSE IF s.selfUserId \in DOMAIN s.users THEN <<s.users[s.selfUserId]>>
    ELSE <<>>

\* DataInternalApi as constructed: empty indices, no self user.
EmptyStore ==
    [users |-> <<>>, chats |-> <<>>, clientMessages |-> <<>>, channelMessages |-> <<>>,
     dialogs |-> [dialogs |-> <<>>, messages |-> <<>>, chats |-> <<>>, users |-> <<>>,
                  count |-> 0],
     contactList |-> <<>>, selfUserId |-> 0, warnings |-> 0]

StoreInit ==
    /\ d = EmptyStore
    /\ log = <<>>
    /\ out = NoOutput
    /\ returned = NoLookup

NoCall == [conn |-> Null, authKeyId |-> 0, result |-> TRUE, lookedUp |-> FALSE]

\* The connections as constructed, with connected transports.
ConnInit ==
    /\ authKey = [c \in Conns |-> EmptyKey]
    /\ status = [c \in Conns |-> "Connected"]
    /\ transport = [c \in Conns |-> [state |-> "Connected", sent |-> <<>>]]
    /\ slots = [c \in Conns |-> [handler |-> TRUE, keyError |-> 0]]
    /\ registry = {}
    /\ sessConn = [s \in Sessions |-> Null]
    /\ rpcSession = [c \in Conns |-> Null]
    /\ ret = NoCall
    /\ pending = [c \in Conns |-> NoPending]

\* No users registered, no operation.
RpcIdle ==
    /\ serverUsers = {}
    /\ layerUser = Null
    /\ setupFails = {}
    /\ op = NoOperation
    /\ replies = <<>>

\* An RPC layer of a server with some users registered, whose requester is
\* one of them or nobody.
RpcInit ==
    /\ serverUsers \in SUBSET RegistrableUserIds
    /\ layerUser \in serverUsers \cup {Null}
    /\ setupFails \in SUBSET serverUsers
    /\ op = NoOperation
    /\ replies = <<>>

InitConn == ConnInit /\ RpcIdle /\ StoreInit

InitRpc == ConnInit /\ RpcInit /\ StoreInit

InitStore == ConnInit /\ RpcIdle /\ StoreInit

NextConn ==
    \/ \E c \in Conns, id \in PresentedIds : onTransportPacketReceived(c, id)
    \/ \E c \in Conns : onPacketAfterKeyError(c)
    \/ \E c \in Conns, key \in Keys : dhKeyEstablished(c, key)
    \/ \E c \in Conns : transportDisconnected(c)

\* The connections together with the server attaching sessions to them
\* (packets that arrive after a key failure are left to NextConn).
NextSession ==
    \/ \E c \in Conns, id \in PresentedIds : onTransportPacketReceived(c, id)
    \/ \E c \in Conns, key \in Keys : dhKeyEstablished(c, key)
    \/ \E c \in Conns, s \in Sessions : setSession(c, s)

\* Connections on separate executors sharing the server API: a
\* processAuthKey call is two steps around its registry read, so that calls
\* on distinct connections, handshakes and reconnections interleave.
NextShared ==
    \/ \E c \in Conns, id \in PresentedIds : processAuthKeyLookup(c, id)
    \/ \E c \in Conns : processAuthKeyFinish(c)
    \/ \E c \in Conns, key \in Keys : dhKeyEstablished(c, key)
    \/ \E c \in Conns : reconnect(c)

NextRpc ==
    \/ \E input \in InputUsers, e \in BOOLEAN : processRpcCallGetFullUser(input, e)
    \/ \E inputs \in InputUserVectors, e \in BOOLEAN : processRpcCallGetUsers(inputs, e)
    \/ \E f \in TLValues : processRpcCallOther(f)
    \/ startImplementation

NextStore ==
    \/ \E user \in TLUsers : ingestUser(user)
    \/ \E chat \in TLChats : ingestChat(chat)
    \/ \E message \in TLMessages : ingestMessage(message)
    \/ \E users \in UserVectors : ingestUsers(users)
    \/ \E chats \in ChatVectors : ingestChats(chats)
    \/ \E authorization \in Authorizations : ingestAuthorization(authorization)
    \/ \E dialogs \in DialogsResponses : ingestDialogs(dialogs)
    \/ \E messages \in MessagesResponses : ingestMessages(messages)
    \/ \E contacts \in ContactVectors : ingestContacts(contacts)

\* What the store is fed while lookups are made: the users and chats of the
\* vectors, plain and channel messages with the smallest and the largest id
\* (channels 0 and the largest quint32), and dialogs responses of at most
\* one dialog.
LookupMessageIds == {1, Word - 1}
LookupMessages ==
    {TLMessage(id, PeerUser(1), [fromId |-> 1, date |-> 100, message |-> "a",
                                 flags |-> {}]) : id \in LookupMessageIds}
    \cup {TLMessage(id, PeerChannel(c), [fromId |-> 2, date |-> 200, message |-> "b",
                                         flags |-> {"Out", "FwdFrom"}]) :
             id \in LookupMessageIds, c \in {0, Word - 1}}
LookupDialogs == {TLMessagesDialogs(ds) : ds \in SeqsUpTo(SampleDialogs, 1)}

\* What is looked up.
LookupIds == 0..(MaxId + 1)
DialogQueries == {Peer("User", 1), Peer("User", 2), Peer("Chat", 1), Peer("Channel", 1)}
MessageQueries ==
    {Peer("User", 1), Peer("Chat", 1), Peer("Channel", 0), Peer("Channel", 1),
     Peer("Channel", Word - 1)}
MessageQueryIds == {1, 2, Word - 1}
InputPeerQueries == {Peer(t, id) : t \in {"User", "Chat", "Channel"}, id \in LookupIds}

\* The store with its readers: ingests interleaved with lookups.
NextLookup ==
    \/ \E user \in VectorUsers : ingestUser(user)
    \/ \E chat \in VectorChats : ingestChat(chat)
    \/ \E message \in LookupMessages : ingestMessage(message)
    \/ \E dialogs \in LookupDialogs : ingestDialogs(dialogs)
    \/ \E userId \in LookupIds : getUserInfoCall(userId)
    \/ \E chatId \in LookupIds : getChatInfoCall(chatId)
    \/ \E peer \in DialogQueries : getDialogInfoCall(peer)
    \/ \E peer \in MessageQueries, messageId \in MessageQueryIds :
          getMessageCall(peer, messageId)
    \/ \E peer \in InputPeerQueries : toInputPeerCall(peer)

vars == <<connVars, rpcVars, storeVars>>

SpecConn == InitConn /\ [][NextConn]_vars

SpecSession == InitConn /\ [][NextSession]_vars

SpecShared == InitConn /\ [][NextShared]_vars

SpecRpc == InitRpc /\ [][NextRpc]_vars

SpecStore == InitStore /\ [][NextStore]_vars

SpecLookup == InitStore /\ [][NextLookup]_vars

(***************************************************************************)
(* Claims about the connection model.                                      *)
(***************************************************************************)
KeyErrorFrame == <<108, 254, 255, 255>>

\* A processAuthKey call on a helper without key, with a non-zero id the
\* registry does not know.
UnknownKeyCall(c, id) ==
    /\ authKey[c] = EmptyKey
    /\ id # 0
    /\ getAuthKeyById(id) = EmptyKey
    /\ onTransportPacketReceived(c, id)

UnknownKeyFails(c) ==
    /\ transport'[c].sent = Append(transport[c].sent, KeyErrorFrame)
    /\ status'[c] = "Failed"
    /\ ret'.result = FALSE
    /\ authKey'[c] = EmptyKey

C2_KnownKeyBinds ==
    [][\A c \in Conns, id \in PresentedIds, k \in Keys :
        ( /\ authKey[c] = EmptyKey
          /\ id # 0
          /\ k \in registry
          /\ AuthKeyId(k) = id
          /\ onTransportPacketReceived(c, id) ) =>
            /\ authKey'[c] = k
            /\ ret'.result = TRUE
            /\ transport'[c] = transport[c]
            /\ status'[c] = status[c]
            /\ status'[c] # "Failed"
            /\ slots'[c].handler
            /\ authKey'[c] # EmptyKey]_vars

C2_Witness ==
    /\ ret.conn # Null
    /\ ret.result
    /\ ret.lookedUp
    /\ authKey[ret.conn] # EmptyKey
    /\ AuthKeyId(authKey[ret.conn]) = ret.authKeyId
    /\ \E a \in Conns : a # ret.conn /\ authKey[a] = authKey[ret.conn]
                                     /\ status[a] = "HasDhKey"

\* A processAuthKey call with a non-zero id that differs from the bound id.
DifferentIdCall(c, id) ==
    /\ id # 0
    /\ id # authId(c)
    /\ onTransportPacketReceived(c, id)

LookupThenBindOrFail(c, id) ==
    /\ ret'.lookedUp
    /\ getAuthKeyById(id) # EmptyKey =>
          authKey'[c] = getAuthKeyById(id) /\ ret'.result /\ status'[c] # "Failed"
    /\ getAuthKeyById(id) = EmptyKey =>
          ~ret'.result /\ status'[c] = "Failed"
             /\ transport'[c].sent = Append(transport[c].sent, KeyErrorFrame)

\* C3 (as claimed): for every non-zero id that differs from the bound id,
\* whether the helper has no key or a different key, processAuthKey looks
\* the key up, binds it if found, and fails only if the lookup finds nothing.
C3_Original ==
    [][\A c \in Conns, id \in PresentedIds :
        DifferentIdCall(c, id) => LookupThenBindOrFail(c, id)]_vars

\* C3 (amended): for a non-zero id that differs from the bound id, a helper
\* without key looks the key up, binds it if found and fails if not; a
\* helper that already holds a different key makes no lookup: the call
\* sends the key error frame and fails the connection, whether or not the
\* presented id is registered, and the bound key stays.
C3_LookupOnlyWithoutKey ==
    [][\A c \in Conns, id \in PresentedIds :
        DifferentIdCall(c, id) =>
            /\ authKey[c] = EmptyKey => LookupThenBindOrFail(c, id)
            /\ authKey[c] # EmptyKey =>
                  /\ ~ret'.lookedUp
                  /\ ~ret'.result
                  /\ status'[c] = "Failed"
                  /\ transport'[c].sent = Append(transport[c].sent, KeyErrorFrame)
                  /\ authKey'[c] = authKey[c]]_vars

C3_Witness ==
    /\ ret.conn # Null
    /\ ~ret.result
    /\ ~ret.lookedUp
    /\ ret.authKeyId # 0
    /\ getAuthKeyById(ret.authKeyId) # EmptyKey
    /\ authKey[ret.conn] # EmptyKey
    /\ authKey[ret.conn] # getAuthKeyById(ret.authKeyId)
    /\ status[ret.conn] = "Failed"

\* C4: once a helper holds a key, no step changes it: no processAuthKey
\* call, for any presented id and any registry, rebinds or clears it.
C4_BoundKeyImmutable ==
    [][\A c \in Conns :
        authKey[c] # EmptyKey => authKey'[c] = authKey[c]]_vars

C4_Witness ==
    /\ ret.conn # Null
    /\ authKey[ret.conn] # EmptyKey
    /\ ret.authKeyId # authId(ret.conn)
    /\ ret.authKeyId \in {AuthKeyId(k) : k \in registry} \cup {0}
    /\ \E c \in Conns : c # ret.conn /\ authKey[c] \notin {EmptyKey, authKey[ret.conn]}
    /\ Len(transport[ret.conn].sent) = 1

\* C5 (as claimed): every session is referenced by exactly one connection:
\* a connection whose RPC layer references a session is the connection the
\* session points back to, so after B attaches a session of A, A's RPC layer
\* no longer references it.
C5_OneConnectionPerSession ==
    \A c \in Conns :
        rpcSession[c] # Null => sessConn[rpcSession[c]] = c



(***************************************************************************)
(* Claims about the users.* operations.                                    *)
(***************************************************************************)

\* A run of users.getFullUser for the parsed InputUser.
RunsGetFullUser ==
    /\ op.runMethod = "runGetFullUser"
    /\ startImplementation

\* C6: a run of users.getFullUser whose InputUser the server API does not
\* resolve for the requester sends exactly the RPC error USER_ID_INVALID
\* (code 400) and no rpc_result; a run whose InputUser resolves sends exactly
\* one rpc_result, a UserFull whose user is the resolved one, and no error.
C6_GetFullUserReply ==
    [][RunsGetFullUser =>
        LET user == getUser(op.getFullUser, layerUser)
            sent == SubSeq(replies', Len(replies) + 1, Len(replies'))
        IN /\ SubSeq(replies', 1, Len(replies)) = replies
           /\ Len(sent) = 1
           /\ user = Null =>
                 /\ sent[1].kind = "rpc_error"
                 /\ sent[1].code = 400
                 /\ sent[1].message = "USER_ID_INVALID"
           /\ user # Null =>
                 /\ sent[1].kind = "rpc_result"
                 /\ sent[1].result.tlType = "UserFull"
                 /\ sent[1].result.user.id = user
                 /\ user \in serverUsers]_vars

\* The spec's scenario has run: users.getFullUser for an InputUser{user_id}
\* that is not registered, on a server with registered users and a signed-in
\* requester, was answered with the error alone.
C6_Witness ==
    /\ op.state = "finished"
    /\ op.runMethod = "runGetFullUser"
    /\ op.getFullUser.tlType = "InputUser"
    /\ op.getFullUser.userId \notin serverUsers
    /\ layerUser # Null
    /\ Cardinality(serverUsers) = NumServerUsers
    /\ replies = <<[kind |-> "rpc_error", code |-> 400, message |-> "USER_ID_INVALID"]>>

(***************************************************************************)
(* Claims about the client data store.                                     *)
(***************************************************************************)

\* The users, chats and messages a call ingests one by one, in the order
\* the call ingests them.
Elements(call) ==
    LET tag(kind, vec) == [i \in 1..Len(vec) |-> [kind |-> kind, value |-> vec[i]]]
    IN CASE call.kind = "user" -> tag("user", <<call.arg>>)
         [] call.kind = "chat" -> tag("chat", <<call.arg>>)
         [] call.kind = "message" -> tag("message", <<call.arg>>)
         [] call.kind = "users" -> tag("user", call.arg)
         [] call.kind = "chats" -> tag("chat", call.arg)
         [] call.kind = "authorization" -> tag("user", <<call.arg.user>>)
         [] call.kind \in {"dialogs", "messages"} ->
               tag("user", call.arg.users) \o tag("chat", call.arg.chats)
                  \o tag("message", call.arg.messages)
         [] OTHER -> <<>>

RECURSIVE ElementsOf(_)
ElementsOf(calls) ==
    IF calls = <<>> THEN <<>> ELSE Elements(Head(calls)) \o ElementsOf(Tail(calls))

\* Everything ingested so far, oldest first.
History == ElementsOf(log)

MaxOf(S) == CHOOSE x \in S : \A y \in S : y <= x

\* The positions in a history h of the users / chats of an id.
UserHits(h, id) == {i \in DOMAIN h : h[i].kind = "user" /\ h[i].value.id = id}
ChatHits(h, id) == {i \in DOMAIN h : h[i].kind = "chat" /\ h[i].value.id = id}

\* The positions of the messages a getMessage(peer, id) looks among: for a
\* channel peer the messages to that channel with that id, for any other
\* peer the messages with that id that are not addressed to a channel.
MessageHits(h, peer, id) ==
    {i \in DOMAIN h :
        /\ h[i].kind = "message"
        /\ h[i].value.id = id
        /\ IF peer.type = "Channel"
           THEN /\ h[i].value.toId.tlType = "PeerChannel"
                /\ h[i].value.toId.channelId = peer.id
           ELSE h[i].value.toId.tlType # "PeerChannel"}

QueryIds == 0..(MaxId + 1)
\* The peers looked up: a user, a chat (getMessage reads the id of neither)
\* and every channel id.
QueryPeers == {Peer("User", 1), Peer("Chat", MaxId)} \cup {Peer("Channel", id) : id \in QueryIds}

\* C7: after any sequence of ingests, getUserInfo(id) yields the last
\* ingested user of that id, getChatInfo(id) the last ingested chat, and
\* getMessage(peer, id) the fields (text type, sender, date as timestamp,
\* text, out and forwarded flags) of the last ingested message stored under
\* that peer's key.
C7_LookupReturnsLastIngest ==
    LET h == History
    IN /\ \A id \in QueryIds :
             LET hits == UserHits(h, id)
             IN hits # {} =>
                   getUserInfo(d, id) = [found |-> TRUE, info |-> h[MaxOf(hits)].value]
       /\ \A id \in QueryIds :
             LET hits == ChatHits(h, id)
             IN hits # {} =>
                   getChatInfo(d, id) = [found |-> TRUE, info |-> h[MaxOf(hits)].value]
       /\ \A peer \in QueryPeers, id \in QueryIds :
             LET hits == MessageHits(h, peer, id)
             IN hits # {} =>
                   LET last == h[MaxOf(hits)].value
                       got == getMessage(d, peer, id)
                   IN /\ got.found
                      /\ got.message.type = "MessageTypeText"
                      /\ got.message.fromId = last.fromId
                      /\ got.message.timestamp = last.date
                      /\ got.message.text = last.message
                      /\ ("MessageFlagOut" \in got.message.flags) = ("Out" \in last.flags)
                      /\ ("MessageFlagForwarded" \in got.message.flags)
                            = ("FwdFrom" \in last.flags)

\* A user and a plain message have each been ingested twice with different
\* values, and the lookups yield the later ones.
C7_Witness ==
    LET h == History
    IN /\ \E id \in Ids :
             LET hits == UserHits(h, id)
             IN /\ Cardinality({h[i].value : i \in hits}) > 1
                /\ getUserInfo(d, id).info = h[MaxOf(hits)].value
       /\ \E id \in Ids :
             LET hits == MessageHits(h, Peer("User", 1), id)
             IN /\ Cardinality({h[i].value : i \in hits}) > 1
                /\ getMessage(d, Peer("User", 1), id).message.text
                      = h[MaxOf(hits)].value.message

\* The store as the claims speak of it: every member but the warning count.
StoreState(s) == [s EXCEPT !.warnings = 0]

\* C8: every ingest is idempotent: the call just made, made again, leaves
\* users, chats, client messages, channel messages, dialogs, contact list
\* and self user id as they are.
C8_IngestIdempotent ==
    log # <<>> => StoreState(Ingest(d, log[Len(log)])) = StoreState(d)

\* A vector with two self users of different ids was ingested on a store
\* that had content: repeating it warns again and changes nothing else.
C8_Witness ==
    /\ Len(log) = 2
    /\ log[2].kind = "users"
    /\ d.warnings > 0
    /\ Ingest(d, log[2]).warnings > d.warnings
    /\ d.contactList # <<>>
    /\ StoreState(Ingest(d, log[2])) = StoreState(d)

\* The peers of the dialog list.
DialogPeers(s) == {toPublicPeer(s.dialogs.dialogs[i].peer) : i \in DOMAIN s.dialogs.dialogs}

KeysKept ==
    /\ DOMAIN d.users \subseteq DOMAIN d'.users
    /\ DOMAIN d.chats \subseteq DOMAIN d'.chats
    /\ DOMAIN d.clientMessages \subseteq DOMAIN d'.clientMessages
    /\ DOMAIN d.channelMessages \subseteq DOMAIN d'.channelMessages

\* C9 (as claimed): no ingest deletes a stored record: every user, chat and
\* message key stays, and every dialog of the dialog list stays in it.
C9_Original ==
    [][KeysKept /\ DialogPeers(d) \subseteq DialogPeers(d')]_vars

\* C9 (amended): no ingest deletes a stored user, chat or message: their
\* keys stay in users, chats, client and channel messages, and only the
\* value under a key is replaced.  The dialog list is not kept: each
\* processData(TLMessagesDialogs) replaces it as a whole by the list it is
\* given, and no other ingest changes it.
C9_KeysNeverRemoved ==
    [][/\ KeysKept
       /\ LET call == log'[Len(log')]
          IN IF call.kind = "dialogs"
             THEN d'.dialogs = call.arg
             ELSE d'.dialogs = d.dialogs]_vars

\* A second dialogs response without the dialogs of the first: the dialog
\* list is empty again, the users and messages of the first are still there.
C9_Witness ==
    /\ Len(log) = 2
    /\ log[1].kind = "dialogs"
    /\ log[2].kind = "dialogs"
    /\ Len(log[1].arg.dialogs) = 2
    /\ d.dialogs.dialogs = <<>>
    /\ DOMAIN d.users # {}
    /\ DOMAIN d.channelMessages # {}

\* C10: processData of a self user whose id differs from a recorded non-zero
\* self id logs one warning, stores the user and makes its id the self id;
\* a self user with no self id recorded, or with the same id, sets or keeps
\* the id without warning; a user not flagged self is stored and leaves the
\* self id and the warnings alone.
C10_SelfUserWarning ==
    [][\A user \in TLUsers :
        ingestUser(user) =>
            /\ user.id \in DOMAIN d'.users
            /\ d'.users[user.id] = user
            /\ (user.self /\ d.selfUserId # 0 /\ d.selfUserId # user.id) =>
                  d'.warnings = d.warnings + 1 /\ d'.selfUserId = user.id
            /\ (user.self /\ (d.selfUserId = 0 \/ d.selfUserId = user.id)) =>
                  d'.warnings = d.warnings /\ d'.selfUserId = user.id
            /\ ~user.self =>
                  d'.warnings = d.warnings /\ d'.selfUserId = d.selfUserId]_vars

\* A self user was ingested after a self user of another id: one warning,
\* both records stored, the newer id recorded.
C10_Witness ==
    /\ Len(log) = 2
    /\ log[1].kind = "user"
    /\ log[2].kind = "user"
    /\ log[1].arg.self
    /\ log[2].arg.self
    /\ log[1].arg.id # log[2].arg.id
    /\ d.warnings = 1
    /\ d.selfUserId = log[2].arg.id
    /\ DOMAIN d.users = {log[1].arg.id, log[2].arg.id}

(***************************************************************************)
(* Claims about the lookups of the client data store.                      *)
(***************************************************************************)

\* C11 (as claimed): for every peer of type User, Chat or Channel,
\* toInputPeer returns InputPeerSelf if and only if the peer's id is the
\* self user id (checked for the peers of a non-zero id).
C11_Original ==
    \A p \in {q \in InputPeerQueries : q.id # 0} :
        (toInputPeer(d, p).tlType = "InputPeerSelf") <=> (p.id = d.selfUserId)

\* C11 (amended): toInputPeer(p) returns InputPeerSelf if and only if p is a
\* User peer whose id is the self user id; a Chat or Channel peer of that id
\* never resolves to the self shortcut.  A call returns the same result as
\* long as nothing is ingested and leaves the store as it is.
C11_SelfShortcutForUserPeers ==
    /\ [](\A p \in InputPeerQueries :
            (toInputPeer(d, p).tlType = "InputPeerSelf")
               <=> (p.type = "User" /\ p.id = d.selfUserId))
    /\ [][\A p \in InputPeerQueries :
            toInputPeerCall(p) =>
               /\ d' = d
               /\ returned'.inputPeer = toInputPeer(d', p)
               /\ (returned'.inputPeer.tlType = "InputPeerSelf")
                     <=> (p.type = "User" /\ p.id = d.selfUserId)]_vars

\* With a self user recorded, toInputPeer has just resolved a channel of the
\* self user's id to InputPeerChannel, and the User peer of that id still
\* resolves to the self shortcut.
C11_Witness ==
    /\ d.selfUserId # 0
    /\ returned.call = "toInputPeer"
    /\ returned.inputPeer.tlType = "InputPeerChannel"
    /\ returned.inputPeer.channelId = d.selfUserId
    /\ toInputPeer(d, Peer("User", d.selfUserId)).tlType = "InputPeerSelf"

RECURSIVE BitOr(_, _)
BitOr(a, b) ==
    IF a = 0 THEN b
    ELSE IF b = 0 THEN a
    ELSE (IF a % 2 = 1 \/ b % 2 = 1 THEN 1 ELSE 0) + 2 * BitOr(a \div 2, b \div 2)

\* c << 32 as a quint64.
ShiftLeftWord(c) == (c * Word) % DWord

Words == 0..(Word - 1)

\* channelMessageToKey is (c << 32) | m on every pair of quint32 values, and
\* no two pairs share a key.  This does not depend on the state: it is
\* evaluated in the states before the first ingest.
KeyIsShiftOr ==
    /\ \A c \in Words, m \in Words :
          channelMessageToKey(c, m) = BitOr(ShiftLeftWord(c), m)
    /\ Cardinality({channelMessageToKey(c, m) : c \in Words, m \in Words}) = Word * Word

\* The channel messages of the store are those ingested, each under the key
\* of its channel and id.
ChannelKeysOfHistory ==
    LET h == History
    IN DOMAIN d.channelMessages =
          {channelMessageToKey(h[i].value.toId.channelId, h[i].value.id) :
              i \in {j \in DOMAIN h : /\ h[j].kind = "message"
                                     /\ h[j].value.toId.tlType = "PeerChannel"}}

\* C13: channelMessageToKey(c, m) is (c << 32) | m for all quint32 c and m,
\* distinct pairs giving distinct keys; a message to a channel is stored
\* under that key in the channel messages and leaves the client messages as
\* they are, any other message is stored under its id in the client
\* messages and leaves the channel messages as they are; getMessage with a
\* non-channel peer yields a message that was not addressed to a channel,
\* getMessage with a channel peer one addressed to that channel (channel 0
\* included).
C13_ChannelKeysApart ==
    /\ [](log = <<>> => KeyIsShiftOr)
    /\ []ChannelKeysOfHistory
    /\ [][/\ \A message \in LookupMessages :
               ingestMessage(message) =>
                  IF message.toId.tlType = "PeerChannel"
                  THEN LET key == BitOr(ShiftLeftWord(message.toId.channelId), message.id)
                       IN /\ d'.clientMessages = d.clientMessages
                          /\ DOMAIN d'.channelMessages = DOMAIN d.channelMessages \cup {key}
                          /\ d'.channelMessages[key] = message
                          /\ \A k \in DOMAIN d.channelMessages \ {key} :
                                d'.channelMessages[k] = d.channelMessages[k]
                  ELSE /\ d'.channelMessages = d.channelMessages
                       /\ d'.clientMessages[message.id] = message
          /\ \A peer \in MessageQueries, id \in MessageQueryIds :
               getMessageCall(peer, id) =>
                  LET h == History
                      hits == MessageHits(h, peer, id)
                  IN /\ returned'.ok = (hits # {})
                     /\ returned'.ok =>
                           \E i \in hits : out'.value = <<toPublicMessage(h[i].value)>>]_vars

\* A plain message and a message to channel 0 of the same id are both
\* stored, and getMessage for channel 0 has just returned the channel one.
C13_Witness ==
    /\ 1 \in DOMAIN d.clientMessages
    /\ d.clientMessages[1].message = "a"
    /\ 1 \in DOMAIN d.channelMessages
    /\ d.channelMessages[1].toId = PeerChannel(0)
    /\ returned = Returned("getMessage", TRUE)
    /\ out.kind = "message"
    /\ out.value # <<>>
    /\ out.value[1].text = "b"

\* What a lookup owes its caller: it returns whether the key is stored, on a
\* miss the object passed is as it was, on a hit it holds the stored value
\* (stored: <<v>>),
\* and the store is left alone.
LookupContract(call, kind, present, stored) ==
    /\ d' = d
    /\ log' = log
    /\ returned' = Returned(call, present)
    /\ ~present => out' = Passed(kind)
    /\ present => out' = [kind |-> kind, value |-> stored]

\* C14: getUserInfo, getChatInfo, getDialogInfo and getMessage return false
\* for a key that is not stored and then leave the caller's object as it
\* was; on a hit they return true and the object holds the stored value; in
\* both cases the store (indices, dialog list, self user id) is unchanged;
\* and no ingest changes an object a caller has received.
C14_LookupsReadOnly ==
    [][/\ \A userId \in LookupIds :
             getUserInfoCall(userId) =>
                LookupContract("getUserInfo", "user", userId \in DOMAIN d.users,
                               IF userId \in DOMAIN d.users THEN <<d.users[userId]>> ELSE <<>>)
       /\ \A chatId \in LookupIds :
             getChatInfoCall(chatId) =>
                LookupContract("getChatInfo", "chat", chatId \in DOMAIN d.chats,
                               IF chatId \in DOMAIN d.chats THEN <<d.chats[chatId]>> ELSE <<>>)
       /\ \A peer \in DialogQueries :
             getDialogInfoCall(peer) =>
                LET at == {i \in DOMAIN d.dialogs.dialogs :
                              toPublicPeer(d.dialogs.dialogs[i].peer) = peer}
                IN LookupContract("getDialogInfo", "dialog", at # {},
                                  IF at # {} THEN <<d.dialogs.dialogs[CHOOSE i \in at :
                                                          \A j \in at : i <= j]>>
                                  ELSE <<>>)
       /\ \A peer \in MessageQueries, id \in MessageQueryIds :
             getMessageCall(peer, id) =>
                LET index == IF peer.type = "Channel" THEN d.channelMessages
                             ELSE d.clientMessages
                    key == IF peer.type = "Channel"
                           THEN BitOr(ShiftLeftWord(peer.id), id) ELSE id
                IN LookupContract("getMessage", "message", key \in DOMAIN index,
                                  IF key \in DOMAIN index
                                  THEN <<toPublicMessage(index[key])>> ELSE <<>>)
       /\ log' # log => out' = out]_vars

\* A caller that had received user 1 looked up an unknown user: false was
\* returned and its object still holds what it had received, which the
\* store has since replaced.
C14_Witness ==
    /\ returned = Returned("getUserInfo", FALSE)
    /\ out.kind = "user"
    /\ out.value # <<>>
    /\ out.value[1].id \in DOMAIN d.users
    /\ d.users[out.value[1].id] # out.value[1]

(***************************************************************************)
(* Further claims about the connection model.                              *)
(***************************************************************************)

\* C15: a processAuthKey call that fails (unknown id, or an id differing
\* from the bound one) leaves the session of the connection's RPC layer,
\* the sessions' connections and the auth key registry as they are; and
\* whatever connections have failed, a connection without key that presents
\* a registered id is bound to the registered key.
C15_KeyFailureSparesSession ==
    [][\A c \in Conns, id \in PresentedIds :
         onTransportPacketReceived(c, id) =>
            /\ ~ret'.result =>
                  /\ rpcSession' = rpcSession
                  /\ sessConn' = sessConn
                  /\ registry' = registry
                  /\ status'[c] = "Failed"
            /\ (authKey[c] = EmptyKey /\ \E k \in registry : AuthKeyId(k) = id) =>
                  /\ ret'.result
                  /\ authKey'[c] \in registry
                  /\ AuthKeyId(authKey'[c]) = id]_vars

\* A connection with a session attached has failed, its RPC layer still
\* references the session, and after that another connection presenting
\* the registered id was bound to the key.
C15_Witness ==
    /\ ret.conn # Null
    /\ ret.result
    /\ ret.lookedUp
    /\ authKey[ret.conn] \in registry
    /\ \E a \in Conns :
          /\ a # ret.conn
          /\ status[a] = "Failed"
          /\ rpcSession[a] # Null
          /\ sessConn[rpcSession[a]] = a
          /\ authKey[a] = authKey[ret.conn]

\* C16: processAuthKey(0) on a helper without key returns true, looks
\* nothing up, sends nothing and leaves status, slots and key as they are;
\* processAuthKey(0) on a helper that holds a key sends the key error frame,
\* sets the status Failed and returns false; and every call whose id is the
\* helper's bound id returns true and changes nothing.
C16_ZeroOnlyBeforeKey ==
    [][\A c \in Conns, id \in PresentedIds :
         onTransportPacketReceived(c, id) =>
            /\ id = authId(c) =>
                  /\ ret'.result
                  /\ ~ret'.lookedUp
                  /\ UNCHANGED <<authKey, status, transport, slots, registry>>
            /\ (id = 0 /\ authKey[c] = EmptyKey) => id = authId(c)
            /\ (id = 0 /\ authKey[c] # EmptyKey) =>
                  /\ ~ret'.result
                  /\ ~ret'.lookedUp
                  /\ status'[c] = "Failed"
                  /\ transport'[c].sent = Append(transport[c].sent, KeyErrorFrame)
                  /\ authKey'[c] = authKey[c]]_vars

\* The id zero was presented on a connection that holds a key: the call
\* failed with one key error frame; the other connection, without key, is
\* untouched.
C16_Witness ==
    /\ ret.conn # Null
    /\ ret.authKeyId = 0
    /\ ~ret.result
    /\ authKey[ret.conn] # EmptyKey
    /\ status[ret.conn] = "Failed"
    /\ transport[ret.conn].sent = <<KeyErrorFrame>>
    /\ \E a \in Conns : a # ret.conn /\ authKey[a] = EmptyKey /\ status[a] = "Connected"

\* C19: once processAuthKey has failed a connection, its status stays
\* Failed, its packet handler is never connected again (no processAuthKey
\* call, no handshake, no change of the helper's key), sendKeyError is
\* connected exactly once, and each later packet is answered with exactly
\* one more frame 6c fe ff ff, nothing else being sent.
C19_KeyFailureAbsorbing ==
    /\ [](\A c \in Conns :
            status[c] = "Failed" => ~slots[c].handler /\ slots[c].keyError = 1)
    /\ [][\A c \in Conns :
            status[c] = "Failed" =>
               /\ status'[c] = "Failed"
               /\ authKey'[c] = authKey[c]
               /\ \A id \in PresentedIds : ~onTransportPacketReceived(c, id)
               /\ \A key \in Keys : ~dhKeyEstablished(c, key)
               /\ onPacketAfterKeyError(c) =>
                     transport'[c].sent = Append(transport[c].sent, KeyErrorFrame)
               /\ transport'[c].sent # transport[c].sent => onPacketAfterKeyError(c)]_vars

\* A failed connection has answered a later packet: two frames sent, the
\* status still Failed, the handler disconnected.
C19_Witness ==
    \E c \in Conns :
        /\ status[c] = "Failed"
        /\ transport[c].sent = <<KeyErrorFrame, KeyErrorFrame>>
        /\ ~slots[c].handler
        /\ ret.conn = c
        /\ ~ret.result

\* C20: when processAuthKey(id) returns true the helper's auth key id is id
\* afterwards, and when it returns false the helper's key (hence its id) is
\* what it was before the call.
C20_ResultAgreesWithBinding ==
    [][\A c \in Conns, id \in PresentedIds :
         onTransportPacketReceived(c, id) =>
            /\ ret'.conn = c
            /\ ret'.authKeyId = id
            /\ ret'.result => AuthKeyId(authKey'[c]) = id
            /\ ~ret'.result => authKey'[c] = authKey[c]]_vars

\* A connection was bound by the id it presented and holds the key of that
\* id, while a connection that failed before still holds its own key.
C20_Witness ==
    /\ ret.conn # Null
    /\ ret.result
    /\ ret.lookedUp
    /\ ret.authKeyId # 0
    /\ transport[ret.conn].sent = <<>>
    /\ AuthKeyId(authKey[ret.conn]) = ret.authKeyId
    /\ \E a \in Conns :
          /\ a # ret.conn
          /\ status[a] = "Failed"
          /\ authKey[a] # EmptyKey

(***************************************************************************)
(* Further claims about the users.* operations.                            *)
(***************************************************************************)

\* The users the entries of a users.getUsers request resolve to (Null: not
\* resolved), and the TLUsers of those setupTLUser succeeds for.
Resolved(inputs) == [i \in 1..Len(inputs) |-> getUser(inputs[i], layerUser)]
Unresolved(inputs) == {i \in 1..Len(inputs) : Resolved(inputs)[i] = Null}
SetUpUsers(inputs) ==
    LET ok(u) == u \notin setupFails
        kept == SelectSeq(Resolved(inputs), ok)
    IN [i \in 1..Len(kept) |->
          [tlType |-> "User", id |-> kept[i], self |-> (kept[i] = layerUser)]]

\* C17: a run of a users operation sends exactly one reply, an rpc_error or
\* an rpc_result.  users.getUsers with an entry that cannot be resolved
\* replies USER_ID_INVALID and nothing else; with every entry resolved it
\* replies one vector: in request order, the users setupTLUser succeeded for.
C17_OneReplyPerRun ==
    [][startImplementation =>
         /\ Len(replies') = 1
         /\ replies'[1].kind \in {"rpc_error", "rpc_result"}
         /\ op.runMethod = "runGetUsers" =>
               IF Unresolved(op.getUsers) # {}
               THEN replies' = <<UserIdInvalid>>
               ELSE /\ replies'[1].kind = "rpc_result"
                    /\ replies'[1].result = SetUpUsers(op.getUsers)]_vars

\* users.getUsers for a user that resolves followed by one that does not
\* was answered with the error alone.
C17_Witness ==
    /\ op.state = "finished"
    /\ op.runMethod = "runGetUsers"
    /\ Len(op.getUsers) = 2
    /\ getUser(op.getUsers[1], layerUser) # Null
    /\ getUser(op.getUsers[2], layerUser) = Null
    /\ replies = <<UserIdInvalid>>

\* C18: getMethodForRpcFunction maps UsersGetFullUser to processGetFullUser,
\* UsersGetUsers to processGetUsers and every other tag to no method; the
\* process method of a tag records the run method of the same name and
\* reports success exactly when the stream's error latch is not set; and the
\* run step executed is the one recorded.  (A processRpcCall step is
\* recognised by the argument the operation holds after it.)
C18_DispatchFixed ==
    /\ [](/\ getMethodForRpcFunction("UsersGetFullUser") = "processGetFullUser"
          /\ getMethodForRpcFunction("UsersGetUsers") = "processGetUsers"
          /\ \A f \in TLValues \ {"UsersGetFullUser", "UsersGetUsers"} :
                getMethodForRpcFunction(f) = "nullptr")
    /\ [][/\ \A e \in BOOLEAN :
               processRpcCallGetFullUser(op'.getFullUser, e) =>
                  /\ op'.runMethod = "runGetFullUser"
                  /\ op'.parsed = ~e
                  /\ (op'.state = "processed") = ~e
          /\ \A e \in BOOLEAN :
               processRpcCallGetUsers(op'.getUsers, e) =>
                  /\ op'.runMethod = "runGetUsers"
                  /\ op'.parsed = ~e
                  /\ (op'.state = "processed") = ~e
          /\ \A f \in TLValues : processRpcCallOther(f) => op' = NoOperation
          /\ startImplementation =>
               /\ op.runMethod = "runGetFullUser" =>
                     replies' = runGetFullUser(<<>>, op.getFullUser, layerUser)
               /\ op.runMethod = "runGetUsers" =>
                     replies' = runGetUsers(<<>>, op.getUsers, layerUser)]_vars

\* A users.getUsers call whose argument did not parse: runGetUsers was
\* recorded, failure reported, and nothing ran.
C18_Witness ==
    /\ op.state = "dropped"
    /\ op.runMethod = "runGetUsers"
    /\ ~op.parsed
    /\ replies = <<>>
    /\ layerUser # Null

(***************************************************************************)
(* A further claim about the client data store.                            *)
(***************************************************************************)

\* C21: in every reachable state of the store a non-zero self user id is a
\* key of the users index, so that getSelfUser returns that record; with
\* the self user id zero getSelfUser returns none.
C21_SelfUserStored ==
    /\ d.selfUserId # 0 =>
          /\ d.selfUserId \in DOMAIN d.users
          /\ getSelfUser(d) = <<d.users[d.selfUserId]>>
          /\ getSelfUser(d)[1].id = d.selfUserId
    /\ d.selfUserId = 0 => getSelfUser(d) = <<>>

\* A self user was ingested after a self user of another id: the store
\* warned, the self user id is the later one, getSelfUser returns its
\* record and the record of the earlier one is still stored.
C21_Witness ==
    /\ d.warnings > 0
    /\ d.selfUserId # 0
    /\ getSelfUser(d) # <<>>
    /\ getSelfUser(d)[1].self
    /\ \E id \in DOMAIN d.users : id # d.selfUserId /\ d.users[id].self

(***************************************************************************)
(* Connections sharing the server API.                                     *)
(***************************************************************************)

\* The registered keys whose id is id (at most one).
RegisteredFor(id) == {k \in registry : AuthKeyId(k) = id}

\* What a call on connection c leaves alone: every other connection's
\* helper, status, transport, slots and call in progress.
OthersUntouched(c) ==
    \A o \in Conns \ {c} :
        /\ authKey'[o] = authKey[o]
        /\ status'[o] = status[o]
        /\ transport'[o] = transport[o]
        /\ slots'[o] = slots[o]
        /\ pending'[o] = pending[o]

\* C22: processAuthKey only reads the auth-key registry.  Under every
\* interleaving of processAuthKey calls on distinct connections (with
\* handshakes and reconnections in between) no step of a call changes the
\* registry or another connection; what a call reads is the registered key
\* of the presented id, or none; its result and the key it leaves on the
\* helper are determined by the helper's key before the call, the presented
\* id and what it read; and every connection without key that presents a
\* registered id ends bound to the registered key of that id, the same key
\* as every other connection holding that id.
C22_ProcessAuthKeyOnlyReads ==
    /\ [](\A c \in Conns :
            /\ authKey[c] # EmptyKey => authKey[c] \in registry
            /\ pending[c].active =>
                  /\ authKey[c] = EmptyKey
                  /\ pending[c].key # EmptyKey =>
                        pending[c].key \in RegisteredFor(pending[c].id))
    /\ [][\A c \in Conns :
            /\ \A id \in PresentedIds :
                  processAuthKeyLookup(c, id) =>
                     /\ registry' = registry
                     /\ OthersUntouched(c)
                     /\ pending'[c].active = (id # authId(c) /\ authKey[c] = EmptyKey)
                     /\ pending'[c].active =>
                           /\ pending'[c].id = id
                           /\ \/ pending'[c].key \in RegisteredFor(id)
                              \/ pending'[c].key = EmptyKey /\ RegisteredFor(id) = {}
                           /\ authKey'[c] = authKey[c]
                           /\ ret' = ret
                     /\ ~pending'[c].active =>
                           /\ ret'.conn = c
                           /\ ret'.result = (id = authId(c))
                           /\ ~ret'.lookedUp
                           /\ authKey'[c] = authKey[c]
            /\ processAuthKeyFinish(c) =>
                  /\ registry' = registry
                  /\ OthersUntouched(c)
                  /\ ~pending'[c].active
                  /\ ret'.conn = c
                  /\ ret'.authKeyId = pending[c].id
                  /\ ret'.lookedUp
                  /\ ret'.result = (pending[c].key # EmptyKey)
                  /\ authKey'[c] = pending[c].key
                  /\ ret'.result =>
                        /\ authKey'[c] \in RegisteredFor(pending[c].id)
                        /\ \A o \in Conns :
                              AuthKeyId(authKey'[o]) = pending[c].id =>
                                 authKey'[o] = authKey'[c]]_vars

\* Two connections, neither of which made the key by a handshake of its
\* own, presented the id of a registered key and both are bound to that
\* key, which is still registered; the last call returned true after its
\* lookup and no call is in progress.
C22_Witness ==
    \E a \in Conns, b \in Conns :
        /\ a # b
        /\ authKey[a] # EmptyKey
        /\ authKey[a] = authKey[b]
        /\ authKey[a] \in registry
        /\ status[a] = "Connected"
        /\ status[b] = "Connected"
        /\ transport[a].sent = <<>>
        /\ transport[b].sent = <<>>
        /\ ~pending[a].active
        /\ ~pending[b].active
        /\ ret.conn = b
        /\ ret.result
        /\ ret.lookedUp
        /\ ret.authKeyId = AuthKeyId(authKey[a])

====
